---- MODULE Spec2Model ----
(***************************************************************************)
(* Model of railway-deployment/local-poc/code-test.py: verify_dependencies *)
(* builds a report from three guarded checks (HTTP GET, dateutil, stdlib)  *)
(* and a summary.  Each caller runs its own invocation with its own        *)
(* `results` dict and locals; the random module's generator and the wall   *)
(* clock are ambient, process-wide state.                                  *)
(***************************************************************************)
EXTENDS Integers, Sequences, FiniteSets, TLC

VARIABLES
    pc,        \* per caller: the statement the invocation is about to run
    results,   \* per caller: the `results` dict of the invocation
    local,     \* per caller: the bound locals among response, repo_data,
               \* random_num, random_choice
    exc,       \* per caller: the exception propagating out of the call
    inputs,    \* per caller: what the invocation has read from outside itself
    rng,       \* state of the random module's shared generator: the draws made
               \* since it was seeded at import, modulo RngStates
    elapsed    \* seconds the wall clock has advanced since the start

vars == <<pc, results, local, exc, inputs, rng, elapsed>>

(***************************** bounds **************************************)
MaxElapsed == 1     \* the clock advances at most this many seconds
RngStates == 2      \* number of states of the modelled generator

Callers == {"c1", "c2"}

(************************* Python values ***********************************)
None == "None"
EmptyDict == <<>>

\* d[k] = v on a dict
Put(d, k, v) == [x \in (DOMAIN d) \cup {k} |-> IF x = k THEN v ELSE d[x]]

\* d.get(k)
Get(d, k) == IF k \in DOMAIN d THEN d[k] ELSE None

\* JSON scalars as they arrive in a decoded body
JInt(n) == [int |-> n]
JStr(s) == [str |-> s]
JNull == [null |-> TRUE]

\* the outcome of evaluating an expression: a value or a raised exception
Ok(v) == [ok |-> v]
Raised(e) == [raise |-> e]
IsOk(r) == "ok" \in DOMAIN r

(************************** exceptions *************************************)
\* base = "Exception" for classes derived from Exception, "BaseException"
\* for those derived from BaseException only
ReadTimeout == [base |-> "Exception", name |-> "ReadTimeout", arg |-> "Read timed out. (read timeout=5)"]
ConnectionError == [base |-> "Exception", name |-> "ConnectionError", arg |-> "Connection refused"]
JSONDecodeError == [base |-> "Exception", name |-> "JSONDecodeError", arg |-> "Expecting value: line 1 column 1 (char 0)"]
KeyError(k) == [base |-> "Exception", name |-> "KeyError", arg |-> k]
TypeError(m) == [base |-> "Exception", name |-> "TypeError", arg |-> m]
ParserError == [base |-> "Exception", name |-> "ParserError", arg |-> "Unknown string format"]
MemoryError == [base |-> "Exception", name |-> "MemoryError", arg |-> ""]
KeyboardInterrupt == [base |-> "BaseException", name |-> "KeyboardInterrupt", arg |-> ""]

\* str(e); a KeyError prints the repr of its key
Str(e) == IF e.name = "KeyError" THEN "'" \o e.arg \o "'" ELSE e.arg

\* `except Exception`: does the clause match e
ExceptKeyErrorOnly(e) == e.name = "KeyError"
ExceptException(e) == e.base = "Exception"

(********************** number formatting **********************************)
DigitChars == <<"0", "1", "2", "3", "4", "5", "6", "7", "8", "9">>

RECURSIVE IntStr(_)
IntStr(n) == IF n < 10 THEN DigitChars[n + 1]
             ELSE IntStr(n \div 10) \o DigitChars[(n % 10) + 1]

\* n in decimal, zero-padded on the left to w digits
RECURSIVE ZeroPad(_, _)
ZeroPad(n, w) == IF w <= 1 THEN IntStr(n)
                 ELSE ZeroPad(n \div 10, w - 1) \o DigitChars[(n % 10) + 1]

\* f"{n:,}" on a non-negative int
RECURSIVE Thousands(_)
Thousands(n) == IF n < 1000 THEN IntStr(n)
                ELSE Thousands(n \div 1000) \o "," \o ZeroPad(n % 1000, 3)

\* f"{v:,}" on a decoded JSON value
FormatComma(v) ==
    IF "int" \in DOMAIN v THEN Ok(Thousands(v.int))
    ELSE IF "str" \in DOMAIN v THEN Raised([base |-> "Exception", name |-> "ValueError", arg |-> "Cannot specify ',' with 's'."])
    ELSE Raised(TypeError("unsupported format string passed to NoneType.__format__"))

(************************* the HTTP endpoint *******************************)
\* bodies the endpoint can answer with: the repository document, GitHub's
\* rate-limit document (no repository fields), a document whose star count
\* is null, and a gateway page that is not JSON
RepoBody == [json |-> [name |-> JStr("n8n"), stargazers_count |-> JInt(45678),
                       forks_count |-> JInt(5432), language |-> JStr("TypeScript")]]
RateLimitBody == [json |-> [message |-> JStr("API rate limit exceeded")]]
NullStarsBody == [json |-> [name |-> JStr("n8n"), stargazers_count |-> JNull,
                            forks_count |-> JInt(5432), language |-> JStr("TypeScript")]]
GatewayPage == [text |-> "<html>502 Bad Gateway</html>"]

Responses == {[status_code |-> 200, body |-> RepoBody],
              [status_code |-> 403, body |-> RateLimitBody],
              [status_code |-> 200, body |-> NullStarsBody],
              [status_code |-> 502, body |-> GatewayPage]}

\* requests.get(url, timeout=5): a response, or the request fails
GetOutcomes == {Ok(r) : r \in Responses}
                 \cup {Raised(ReadTimeout), Raised(ConnectionError), Raised(KeyboardInterrupt)}

\* response.json()
ResponseJson(response) ==
    IF "json" \in DOMAIN response.body THEN Ok(response.body.json)
    ELSE Raised(JSONDecodeError)

\* d[k] on a decoded JSON object
Subscript(d, k) == IF k \in DOMAIN d THEN Ok(d[k]) ELSE Raised(KeyError(k))

\* as SubscriptComma, with the value turned into a str before formatting
SubscriptCommaOfStr(d, k) ==
    IF k \in DOMAIN d THEN FormatComma(JStr("")) ELSE Raised(KeyError(k))

\* f"{d[k]:,}"
SubscriptComma(d, k) == IF k \in DOMAIN d THEN FormatComma(d[k]) ELSE Raised(KeyError(k))

RequestsVersion == "2.32.3"
Installed == "check-mark"       \* the check-mark emoji of the source
NotInstalled == "cross-mark"    \* the cross-mark emoji of the source

\* the dict display of the requests entry, evaluated left to right; the
\* first failing subexpression raises and no dict is built
RequestsRecord(response, repo_data) ==
    LET name == Subscript(repo_data, "name")
        stars == SubscriptComma(repo_data, "stargazers_count")
        forks == SubscriptComma(repo_data, "forks_count")
        language == Subscript(repo_data, "language")
    IN  IF ~IsOk(name) THEN name
        ELSE IF ~IsOk(stars) THEN stars
        ELSE IF ~IsOk(forks) THEN forks
        ELSE IF ~IsOk(language) THEN language
        ELSE Ok([version |-> RequestsVersion,
                 test |-> "GitHub API status: " \o IntStr(response.status_code),
                 repoData |-> [name |-> name.ok, stars |-> stars.ok,
                               forks |-> forks.ok, language |-> language.ok],
                 installed |-> Installed])

\* as PackageErrorRecord, without the installed flag
PackageErrorRecordBare(e) == [error |-> Str(e)]

\* the dict an except clause of a packages entry stores
PackageErrorRecord(e) == [error |-> Str(e), installed |-> NotInstalled]

(***************************** calendar ************************************)
IsLeap(y) == (y % 4 = 0 /\ y % 100 # 0) \/ y % 400 = 0

DaysInMonth(y, m) ==
    IF m = 2 THEN (IF IsLeap(y) THEN 29 ELSE 28)
    ELSE IF m \in {4, 6, 9, 11} THEN 30 ELSE 31

NextDay(t) ==
    IF t.day < DaysInMonth(t.year, t.month) THEN [t EXCEPT !.day = @ + 1]
    ELSE IF t.month < 12 THEN [t EXCEPT !.day = 1, !.month = @ + 1]
    ELSE [t EXCEPT !.day = 1, !.month = 1, !.year = @ + 1]

PrevDay(t) ==
    IF t.day > 1 THEN [t EXCEPT !.day = @ - 1]
    ELSE IF t.month > 1
         THEN [t EXCEPT !.month = @ - 1, !.day = DaysInMonth(t.year, t.month - 1)]
    ELSE [t EXCEPT !.year = @ - 1, !.month = 12, !.day = 31]

NextSecond(t) ==
    IF t.second < 59 THEN [t EXCEPT !.second = @ + 1]
    ELSE IF t.minute < 59 THEN [t EXCEPT !.second = 0, !.minute = @ + 1]
    ELSE IF t.hour < 23 THEN [t EXCEPT !.second = 0, !.minute = 0, !.hour = @ + 1]
    ELSE NextDay([t EXCEPT !.second = 0, !.minute = 0, !.hour = 0])

RECURSIVE AddSeconds(_, _)
AddSeconds(t, n) == IF n = 0 THEN t ELSE AddSeconds(NextSecond(t), n - 1)

RECURSIVE AddDays(_, _)
AddDays(t, n) == IF n = 0 THEN t ELSE AddDays(NextDay(t), n - 1)

\* t - timedelta(days=n)
RECURSIVE SubDays(_, _)
SubDays(t, n) == IF n = 0 THEN t ELSE SubDays(PrevDay(t), n - 1)

\* t + relativedelta(months=m, days=d): the months first, the day clipped
\* to the end of the target month, then the days
AddRelativeDelta(t, m, d) ==
    LET k == (t.month - 1) + m
        y == t.year + (k \div 12)
        mo == (k % 12) + 1
        last == DaysInMonth(y, mo)
    IN  AddDays([t EXCEPT !.year = y, !.month = mo,
                          !.day = IF t.day > last THEN last ELSE t.day], d)

\* strftime('%Y-%m-%d')
StrftimeYmd(t) == ZeroPad(t.year, 4) \o "-" \o ZeroPad(t.month, 2) \o "-" \o ZeroPad(t.day, 2)

\* isoformat(), at second resolution
Isoformat(t) ==
    StrftimeYmd(t) \o "T" \o ZeroPad(t.hour, 2) \o ":" \o ZeroPad(t.minute, 2)
        \o ":" \o ZeroPad(t.second, 2) \o (IF t.utc THEN "+00:00" ELSE "")

IsoInput == "2025-10-22T14:30:00Z"
NaturalInput == "October 22, 2025"

\* dateutil's parser.parse on the two strings the check passes
ParserParse(s) ==
    IF s = IsoInput
    THEN [year |-> 2025, month |-> 10, day |-> 22, hour |-> 14, minute |-> 30,
          second |-> 0, utc |-> TRUE]
    ELSE [year |-> 2025, month |-> 10, day |-> 22, hour |-> 0, minute |-> 0,
          second |-> 0, utc |-> FALSE]

\* the wall clock at the start, one second before a month ends
StartTime == [year |-> 2025, month |-> 11, day |-> 30, hour |-> 23, minute |-> 59,
              second |-> 59, utc |-> FALSE]

\* datetime.now()
Now == AddSeconds(StartTime, elapsed)

\* the dict display of the dateutil entry
DateutilRecord(now) ==
    LET iso_date == ParserParse(IsoInput)
        natural_date == ParserParse(NaturalInput)
        future_date == AddRelativeDelta(now, 3, 15)
        past_date == SubDays(now, 30)
    IN  [test |-> "Date parsing and manipulation",
         parsedDates |-> [iso |-> Isoformat(iso_date),
                          natural |-> StrftimeYmd(natural_date),
                          currentTime |-> Isoformat(now)],
         calculations |-> [k \in {"in3Months15Days", "30DaysAgo"} |->
                              IF k = "in3Months15Days" THEN StrftimeYmd(future_date)
                              ELSE StrftimeYmd(past_date)],
         installed |-> Installed]

\* faults the date library calls can raise
DateFaults == {ParserError, KeyboardInterrupt}

(************************ standard library *********************************)
\* a decimal number: digits / 10^places
Decimal(digits, places) == [digits |-> digits, places |-> places]

RECURSIVE Pow10(_)
Pow10(n) == IF n = 0 THEN 1 ELSE 10 * Pow10(n - 1)

\* math.pi, in millionths
MathPi == 3141593

\* round(x, places) of x given in millionths
Round(micro, places) ==
    Decimal((micro + 5 * Pow10(5 - places)) \div Pow10(6 - places), places)

\* math.sqrt of a perfect square, a float
MathSqrt(n) == Decimal(10 * (CHOOSE r \in 0..n : r * r = n), 1)

\* the shared generator: one draw reads the state and advances it
Advance(s) == (s + 1) % RngStates

\* random.randint(lo, hi) drawn at state s
RandInt(s, lo, hi) == lo + (s % (hi - lo + 1))

\* random.choice(seq) drawn at state s
RandChoice(s, seq) == seq[(s % Len(seq)) + 1]

Fruits == <<"apple", "banana", "cherry">>

TestData == [name |-> "test", value |-> 42]

\* json.dumps of a {'name': str, 'value': int} dict
JsonDumps(d) ==
    "{\"name\": \"" \o d.name \o "\", \"value\": " \o IntStr(d.value) \o "}"

\* json.loads: the object whose serialization is the text
JsonLoads(text) ==
    CHOOSE d \in [name : {"test", "value"}, value : 41..43] : JsonDumps(d) = text

\* the dict display of the stdlib entry
StdlibRecord(random_num, random_choice, now) ==
    LET circle_area == MathPi * (5 * 5)
        sqrt_result == MathSqrt(144)
        json_string == JsonDumps(TestData)
        json_parsed == JsonLoads(json_string)
    IN  [math |-> [circleArea |-> Round(circle_area, 2),
                   sqrt144 |-> sqrt_result,
                   piValue |-> Round(MathPi, 4)],
         random |-> [randomNumber |-> random_num, randomChoice |-> random_choice],
         json |-> [serialized |-> json_string, deserialized |-> json_parsed],
         datetime |-> [now |-> Isoformat(now), today |-> StrftimeYmd(now)]]

\* as StdlibErrorRecord, with the installed flag of the packages entries
StdlibErrorRecordWithFlag(e) == [error |-> Str(e), installed |-> NotInstalled]

\* the dict the except clause of the stdlib entry stores
StdlibErrorRecord(e) == [error |-> Str(e)]

\* faults the standard library calls can raise
StdlibFaults == {MemoryError, KeyboardInterrupt}

(***************************** the report **********************************)
StatusText == "ALL DEPENDENCIES WORKING"
SummaryMessage == "All packages and stdlib modules working!"

InitialResults == [status |-> StatusText, packages |-> EmptyDict, tests |-> EmptyDict]

\* as SetPackage, rebinding packages to a fresh one-entry dict
SetPackageReplacing(res, k, v) == [res EXCEPT !.packages = [x \in {k} |-> v]]

\* results['packages'][k] = v
SetPackage(res, k, v) == [res EXCEPT !.packages = Put(@, k, v)]

\* results['tests'][k] = v
SetTest(res, k, v) == [res EXCEPT !.tests = Put(@, k, v)]

\* as PackagesWorking, counting every entry
PackagesWorkingCountsEntries(packages) == Cardinality(DOMAIN packages)

\* sum(1 for p in packages.values() if p.get('installed') == check-mark)
PackagesWorking(packages) ==
    Cardinality({k \in DOMAIN packages : Get(packages[k], "installed") = Installed})

\* as WithSummary, with a message that reports failed packages
WithSummaryReflectingFailures(res, now) ==
    Put(res, "summary", [message |-> IF PackagesWorking(res.packages) = 2
                                     THEN SummaryMessage ELSE "Some packages failed",
                         timestamp |-> Isoformat(now),
                         packagesWorking |-> PackagesWorking(res.packages)])

\* results['summary'] = {...}
WithSummary(res, now) ==
    Put(res, "summary", [message |-> SummaryMessage,
                         timestamp |-> Isoformat(now),
                         packagesWorking |-> PackagesWorking(res.packages)])

(************************** the invocation *********************************)
\* an input the invocation has not asked for yet
Pending == [pending |-> TRUE]

NoInputs == [get |-> Pending, date |-> Pending, draw |-> Pending,
             json |-> Pending, summary |-> Pending]

\* no exception is propagating
NoException == [none |-> TRUE]

Init ==
    /\ pc = [c \in Callers |-> "idle"]
    /\ results = [c \in Callers |-> EmptyDict]
    /\ local = [c \in Callers |-> EmptyDict]
    /\ exc = [c \in Callers |-> NoException]
    /\ inputs = [c \in Callers |-> NoInputs]
    /\ rng = 0
    /\ elapsed = 0

\* as Store, with `results` a module-level dict all callers share
StoreShared(c, res) == [d \in Callers |-> res]

\* caller c's `results` becomes res; nobody else's dict is touched
Store(c, res) == [results EXCEPT ![c] = res]

Goto(c, label) == [pc EXCEPT ![c] = label]

\* caller c binds a local name
Bind(c, name, v) == [local EXCEPT ![c] = Put(@, name, v)]

\* as Except, with a caught failure abandoning the remaining checks
ExceptSkippingRest(c, e, handled, next) ==
    IF ExceptException(e)
    THEN /\ results' = Store(c, handled)
         /\ pc' = Goto(c, "summary")
         /\ exc' = exc
    ELSE /\ pc' = Goto(c, "raised")
         /\ exc' = [exc EXCEPT ![c] = e]
         /\ results' = results

\* e leaves a try body: the except clause stores `handled` and the call goes
\* on at `next`, or e matches no clause and propagates out of the call
Except(c, e, handled, next) ==
    IF ExceptException(e)
    THEN /\ results' = Store(c, handled)
         /\ pc' = Goto(c, next)
         /\ exc' = exc
    ELSE /\ pc' = Goto(c, "raised")
         /\ exc' = [exc EXCEPT ![c] = e]
         /\ results' = results

\* results = {...}
Call(c) ==
    /\ pc[c] = "idle"
    /\ results' = Store(c, InitialResults)
    /\ pc' = Goto(c, "net_get")
    /\ UNCHANGED <<local, exc, inputs, rng, elapsed>>

\* response = requests.get(..., timeout=5)
NetGet(c) ==
    /\ pc[c] = "net_get"
    /\ \E out \in GetOutcomes :
         /\ inputs' = [inputs EXCEPT ![c].get = out]
         /\ IF IsOk(out)
            THEN /\ local' = Bind(c, "response", out.ok)
                 /\ pc' = Goto(c, "net_json")
                 /\ UNCHANGED <<results, exc>>
            ELSE /\ Except(c, out.raise,
                           SetPackage(results[c], "requests", PackageErrorRecord(out.raise)),
                           "date")
                 /\ local' = local
    /\ UNCHANGED <<rng, elapsed>>

\* as NetJson, with the requests entry created before its fields are read
NetJsonStoringEarly(c) ==
    /\ pc[c] = "net_json"
    /\ LET out == ResponseJson(local[c].response)
       IN  IF IsOk(out)
           THEN /\ local' = Bind(c, "repo_data", out.ok)
                /\ pc' = Goto(c, "net_record")
                /\ results' = Store(c, SetPackage(results[c], "requests",
                                  [version |-> RequestsVersion, installed |-> Installed]))
                /\ exc' = exc
           ELSE /\ Except(c, out.raise,
                          SetPackage(results[c], "requests", PackageErrorRecord(out.raise)),
                          "date")
                /\ local' = local
    /\ UNCHANGED <<inputs, rng, elapsed>>

\* repo_data = response.json()
NetJson(c) ==
    /\ pc[c] = "net_json"
    /\ LET out == ResponseJson(local[c].response)
       IN  IF IsOk(out)
           THEN /\ local' = Bind(c, "repo_data", out.ok)
                /\ pc' = Goto(c, "net_record")
                /\ UNCHANGED <<results, exc>>
           ELSE /\ Except(c, out.raise,
                          SetPackage(results[c], "requests", PackageErrorRecord(out.raise)),
                          "date")
                /\ local' = local
    /\ UNCHANGED <<inputs, rng, elapsed>>

\* results['packages']['requests'] = {...}
NetRecord(c) ==
    /\ pc[c] = "net_record"
    /\ LET out == RequestsRecord(local[c].response, local[c].repo_data)
       IN  IF IsOk(out)
           THEN /\ results' = Store(c, SetPackage(results[c], "requests", out.ok))
                /\ pc' = Goto(c, "date")
                /\ exc' = exc
           ELSE Except(c, out.raise,
                       SetPackage(results[c], "requests", PackageErrorRecord(out.raise)),
                       "date")
    /\ UNCHANGED <<local, inputs, rng, elapsed>>

\* the date check: parsing, arithmetic, results['packages']['dateutil'] = {...};
\* the clock readings of the block fall within one second
DateCheck(c) ==
    /\ pc[c] = "date"
    /\ \E out \in {Ok(Now)} \cup {Raised(e) : e \in DateFaults} :
         /\ inputs' = [inputs EXCEPT ![c].date = out]
         /\ IF IsOk(out)
            THEN /\ results' = Store(c, SetPackage(results[c], "dateutil", DateutilRecord(out.ok)))
                 /\ pc' = Goto(c, "std_randint")
                 /\ exc' = exc
            ELSE Except(c, out.raise,
                        SetPackage(results[c], "dateutil", PackageErrorRecord(out.raise)),
                        "std_randint")
    /\ UNCHANGED <<local, rng, elapsed>>

\* the math operations, then random_num = random.randint(1, 100)
StdRandInt(c) ==
    /\ pc[c] = "std_randint"
    /\ \E out \in {Ok(rng)} \cup {Raised(e) : e \in StdlibFaults} :
         /\ inputs' = [inputs EXCEPT ![c].draw = out]
         /\ IF IsOk(out)
            THEN /\ local' = Bind(c, "random_num", RandInt(rng, 1, 100))
                 /\ rng' = Advance(rng)
                 /\ pc' = Goto(c, "std_choice")
                 /\ UNCHANGED <<results, exc>>
            ELSE /\ Except(c, out.raise,
                           SetTest(results[c], "stdlib", StdlibErrorRecord(out.raise)),
                           "summary")
                 /\ UNCHANGED <<local, rng>>
    /\ UNCHANGED elapsed

\* random_choice = random.choice([...])
StdChoice(c) ==
    /\ pc[c] = "std_choice"
    /\ local' = Bind(c, "random_choice", RandChoice(rng, Fruits))
    /\ rng' = Advance(rng)
    /\ pc' = Goto(c, "std_record")
    /\ UNCHANGED <<results, exc, inputs, elapsed>>

\* the JSON operations, then results['tests']['stdlib'] = {...}
StdRecord(c) ==
    /\ pc[c] = "std_record"
    /\ \E out \in {Ok(Now)} \cup {Raised(e) : e \in StdlibFaults} :
         /\ inputs' = [inputs EXCEPT ![c].json = out]
         /\ IF IsOk(out)
            THEN /\ results' = Store(c, SetTest(results[c], "stdlib",
                                   StdlibRecord(local[c].random_num, local[c].random_choice, out.ok)))
                 /\ pc' = Goto(c, "summary")
                 /\ exc' = exc
            ELSE Except(c, out.raise,
                        SetTest(results[c], "stdlib", StdlibErrorRecord(out.raise)),
                        "summary")
    /\ UNCHANGED <<local, rng, elapsed>>

\* results['summary'] = {...}; return results
Summary(c) ==
    /\ pc[c] = "summary"
    /\ inputs' = [inputs EXCEPT ![c].summary = Now]
    /\ results' = Store(c, WithSummary(results[c], Now))
    /\ pc' = Goto(c, "done")
    /\ UNCHANGED <<local, exc, rng, elapsed>>

\* a second passes on the wall clock
Tick ==
    /\ elapsed < MaxElapsed
    /\ elapsed' = elapsed + 1
    /\ UNCHANGED <<pc, results, local, exc, inputs, rng>>

Next ==
    \/ \E c \in Callers : Call(c)
    \/ \E c \in Callers : NetGet(c)
    \/ \E c \in Callers : NetJson(c)
    \/ \E c \in Callers : NetRecord(c)
    \/ \E c \in Callers : DateCheck(c)
    \/ \E c \in Callers : StdRandInt(c)
    \/ \E c \in Callers : StdChoice(c)
    \/ \E c \in Callers : StdRecord(c)
    \/ \E c \in Callers : Summary(c)
    \/ Tick

Spec == Init /\ [][Next]_vars

(******************* the call as one sequential run ************************)
\* the try body of the network check: a requests entry, or the exception
\* that leaves the body
RequestsOutcome(get) ==
    IF ~IsOk(get) THEN get
    ELSE LET repo_data == ResponseJson(get.ok)
         IN  IF ~IsOk(repo_data) THEN repo_data
             ELSE RequestsRecord(get.ok, repo_data.ok)

\* the try body of the date check
DateutilOutcome(date) == IF IsOk(date) THEN Ok(DateutilRecord(date.ok)) ELSE date

\* the try body of the stdlib check, its two draws taken back to back from
\* generator state draw.ok
StdlibOutcome(draw, json) ==
    IF ~IsOk(draw) THEN draw
    ELSE IF ~IsOk(json) THEN json
    ELSE Ok(StdlibRecord(RandInt(draw.ok, 1, 100),
                         RandChoice(Advance(draw.ok), Fruits), json.ok))

\* the report of one invocation that runs alone on inputs inp and returns
SoloReport(inp) ==
    LET a == RequestsOutcome(inp.get)
        b == DateutilOutcome(inp.date)
        s == StdlibOutcome(inp.draw, inp.json)
        r1 == SetPackage(InitialResults, "requests",
                         IF IsOk(a) THEN a.ok ELSE PackageErrorRecord(a.raise))
        r2 == SetPackage(r1, "dateutil",
                         IF IsOk(b) THEN b.ok ELSE PackageErrorRecord(b.raise))
        r3 == SetTest(r2, "stdlib",
                      IF IsOk(s) THEN s.ok ELSE StdlibErrorRecord(s.raise))
    IN  WithSummary(r3, inp.summary)

(***************************** claims **************************************)
Returned(c) == pc[c] = "done"

\* what each check of a returned invocation ended with
NetEnd(c) == RequestsOutcome(inputs[c].get)
DateEnd(c) == inputs[c].date
StdEnd(c) == IF IsOk(inputs[c].draw) THEN inputs[c].json ELSE inputs[c].draw

HasError(rec) == "error" \in DOMAIN rec

\* C1 as stated: no invocation ever ends by raising to its caller.
C1_NeverRaises == \A c \in Callers : pc[c] # "raised"

\* C1, amended: only an exception that is not derived from Exception leaves
\* the call; every Exception-derived failure of a check is caught, the call
\* returns, and the failure shows as the error field of that check's own
\* sub-record and of no other.
C1_OnlyNonExceptionsEscape ==
    \A c \in Callers :
        /\ pc[c] = "raised" => exc[c].base = "BaseException"
        /\ Returned(c) =>
             /\ exc[c] = NoException
             /\ HasError(results[c].packages.requests) <=> ~IsOk(NetEnd(c))
             /\ ~IsOk(NetEnd(c)) =>
                  results[c].packages.requests.error = Str(NetEnd(c).raise)
             /\ HasError(results[c].packages.dateutil) <=> ~IsOk(DateEnd(c))
             /\ ~IsOk(DateEnd(c)) =>
                  results[c].packages.dateutil.error = Str(DateEnd(c).raise)
             /\ HasError(results[c].tests.stdlib) <=> ~IsOk(StdEnd(c))
             /\ ~IsOk(StdEnd(c)) =>
                  results[c].tests.stdlib.error = Str(StdEnd(c).raise)

\* C1 witness: an invocation whose three checks all raised has returned.
C1_Witness ==
    \E c \in Callers :
        /\ Returned(c)
        /\ ~IsOk(NetEnd(c)) /\ ~IsOk(DateEnd(c)) /\ ~IsOk(StdEnd(c))

\* C2: a returned report has exactly the keys status, packages, tests and
\* summary; packages exactly requests and dateutil; tests exactly stdlib.
C2_ReportShape ==
    \A c \in Callers :
        Returned(c) =>
            /\ DOMAIN results[c] = {"status", "packages", "tests", "summary"}
            /\ DOMAIN results[c].packages = {"requests", "dateutil"}
            /\ DOMAIN results[c].tests = {"stdlib"}

\* C2 witness: a returned report with a mix of failed and successful checks.
C2_Witness ==
    \E c \in Callers :
        /\ Returned(c)
        /\ ~IsOk(NetEnd(c)) /\ IsOk(DateEnd(c)) /\ ~IsOk(StdEnd(c))

\* C3: when the network check raises and the other two checks do not, the
\* requests entry is exactly {error, installed: cross}, the dateutil and
\* stdlib entries are their complete success records, and packagesWorking
\* is 1.
C3_NetworkFailureIsolation ==
    \A c \in Callers :
        (Returned(c) /\ ~IsOk(NetEnd(c)) /\ IsOk(DateEnd(c)) /\ IsOk(StdEnd(c))) =>
            /\ results[c].packages.requests =
                   [error |-> Str(NetEnd(c).raise), installed |-> NotInstalled]
            /\ results[c].packages.dateutil = DateutilRecord(DateEnd(c).ok)
            /\ results[c].tests.stdlib =
                   StdlibRecord(local[c].random_num, local[c].random_choice, StdEnd(c).ok)
            /\ results[c].summary.packagesWorking = 1

\* C3 witness: the request was answered, a field was missing from the body,
\* and the other two checks succeeded.
C3_Witness ==
    \E c \in Callers :
        /\ Returned(c)
        /\ IsOk(inputs[c].get) /\ ~IsOk(NetEnd(c)) /\ NetEnd(c).raise.name = "KeyError"
        /\ IsOk(DateEnd(c)) /\ IsOk(StdEnd(c))

\* the decoded body carries the four repository fields, the counts as ints
WellFormed(response) ==
    /\ "json" \in DOMAIN response.body
    /\ {"name", "stargazers_count", "forks_count", "language"}
           \subseteq DOMAIN response.body.json
    /\ "int" \in DOMAIN response.body.json.stargazers_count
    /\ "int" \in DOMAIN response.body.json.forks_count

TotalSuccess(c) ==
    /\ results[c].packages.requests.installed = Installed
    /\ results[c].packages.dateutil.installed = Installed
    /\ ~HasError(results[c].tests.stdlib)
    /\ results[c].summary.packagesWorking = 2

\* C4 as stated: whenever the GET returns a response (and the date and
\* stdlib checks do not raise), the report is the total-success report.
C4_ReachableMeansSuccess ==
    \A c \in Callers :
        (Returned(c) /\ IsOk(inputs[c].get) /\ IsOk(DateEnd(c)) /\ IsOk(StdEnd(c)))
            => TotalSuccess(c)

\* C4, amended: whenever the GET returns a response whose body decodes to a
\* JSON object with name, integer stargazers_count and forks_count, and
\* language (and the date and stdlib checks do not raise), both packages
\* entries are installed, tests.stdlib has no error key, and packagesWorking
\* is 2.
C4_WellFormedMeansSuccess ==
    \A c \in Callers :
        (/\ Returned(c)
         /\ IsOk(inputs[c].get) /\ WellFormed(inputs[c].get.ok)
         /\ IsOk(DateEnd(c)) /\ IsOk(StdEnd(c)))
            => TotalSuccess(c)

\* C4 witness: a returned invocation whose GET was answered with the
\* repository document.
C4_Witness ==
    \E c \in Callers :
        /\ Returned(c)
        /\ IsOk(inputs[c].get) /\ WellFormed(inputs[c].get.ok)
        /\ IsOk(DateEnd(c)) /\ IsOk(StdEnd(c))

Count(b) == IF b THEN 1 ELSE 0

\* C5: packagesWorking is the number of packages entries whose installed
\* flag is the check-mark, lies in 0..2, and is the number of the network
\* and date checks that succeeded, whatever the stdlib check did.
C5_PackagesWorking ==
    \A c \in Callers :
        Returned(c) =>
            /\ results[c].summary.packagesWorking =
                   Cardinality({k \in DOMAIN results[c].packages :
                                   results[c].packages[k].installed = Installed})
            /\ results[c].summary.packagesWorking \in 0..2
            /\ results[c].summary.packagesWorking =
                   Count(IsOk(NetEnd(c))) + Count(IsOk(DateEnd(c)))

\* C5 witness: the stdlib check failed and both packages are counted.
C5_Witness ==
    \E c \in Callers :
        /\ Returned(c)
        /\ ~IsOk(StdEnd(c))
        /\ results[c].summary.packagesWorking = 2

\* C7: a failed stdlib check leaves exactly {error}; a failed network or
\* date check leaves exactly {error, installed: cross}; and each section's
\* record is the one its own outcome gives, whatever its siblings did.
C7_ErrorRecordAsymmetry ==
    \A c \in Callers :
        Returned(c) =>
            /\ results[c].packages.requests =
                   (IF IsOk(NetEnd(c)) THEN NetEnd(c).ok
                    ELSE [error |-> Str(NetEnd(c).raise), installed |-> NotInstalled])
            /\ results[c].packages.dateutil =
                   (IF IsOk(DateEnd(c)) THEN DateutilRecord(DateEnd(c).ok)
                    ELSE [error |-> Str(DateEnd(c).raise), installed |-> NotInstalled])
            /\ results[c].tests.stdlib =
                   (IF IsOk(StdEnd(c))
                    THEN StdlibRecord(local[c].random_num, local[c].random_choice, StdEnd(c).ok)
                    ELSE [error |-> Str(StdEnd(c).raise)])

\* C7 witness: the stdlib and network checks failed, the date check did not.
C7_Witness ==
    \E c \in Callers :
        /\ Returned(c)
        /\ ~IsOk(StdEnd(c)) /\ ~IsOk(NetEnd(c)) /\ IsOk(DateEnd(c))
        /\ DOMAIN results[c].tests.stdlib = {"error"}

\* C8: status and summary.message of a returned report are the fixed
\* strings, whichever checks failed.
C8_FixedStrings ==
    \A c \in Callers :
        Returned(c) =>
            /\ results[c].status = StatusText
            /\ results[c].summary.message = SummaryMessage

\* C8 witness: a returned report in which no package works and the stdlib
\* check failed too.
C8_Witness ==
    \E c \in Callers :
        /\ Returned(c)
        /\ results[c].summary.packagesWorking = 0
        /\ HasError(results[c].tests.stdlib)

\* a report without the values drawn from the shared generator
WithoutDraws(report) ==
    IF HasError(report.tests.stdlib) THEN report
    ELSE [report EXCEPT !.tests.stdlib.random = EmptyDict]

\* C6 as stated: under any interleaving of two invocations, each returned
\* report is the report of the invocation run alone on the same inputs.
C6_SameAsAlone ==
    \A c \in Callers : Returned(c) => results[c] = SoloReport(inputs[c])

\* C6, amended: the invocations share and advance the random module's
\* generator and nothing else; a step of one invocation never writes the
\* report or the locals of another, and each returned report equals the
\* report of the invocation run alone on the same inputs except for the
\* values drawn from the generator (randomNumber, randomChoice).
C6_IsolatedButForGenerator ==
    /\ [](\A c \in Callers :
             Returned(c) => WithoutDraws(results[c]) = WithoutDraws(SoloReport(inputs[c])))
    /\ [][\A c \in Callers :
             pc'[c] = pc[c] =>
                 /\ results'[c] = results[c]
                 /\ local'[c] = local[c]
                 /\ exc'[c] = exc[c]]_vars

\* C6 witness: both invocations returned with their stdlib checks passed,
\* and the other invocation drew between the two draws of one of them.
C6_Witness ==
    /\ \A c \in Callers : Returned(c) /\ IsOk(StdEnd(c))
    /\ \E c \in Callers : results[c] # SoloReport(inputs[c])

Labels == <<"idle", "net_get", "net_json", "net_record", "date", "std_randint",
            "std_choice", "std_record", "summary", "done", "raised">>

\* the position of a label in program order
Rank(label) == CHOOSE i \in 1..Len(Labels) : Labels[i] = label

\* C9: an invocation only moves forward through network check, date check,
\* stdlib check, summary, so each is attempted once; a record once stored
\* is never rewritten; unless an exception has left the call, the requests
\* entry is there exactly from the date check on, the dateutil entry from
\* the stdlib check on, the stdlib entry from the summary on, and the
\* summary only once returned, so no check is skipped after a failure and
\* the summary follows all three.
C9_OnceAndInOrder ==
    /\ [](\A c \in Callers :
             /\ pc[c] # "raised" =>
                  /\ "packages" \in DOMAIN results[c] <=> Rank(pc[c]) >= Rank("net_get")
                  /\ ("packages" \in DOMAIN results[c]
                        /\ "requests" \in DOMAIN results[c].packages)
                       <=> Rank(pc[c]) >= Rank("date")
                  /\ ("packages" \in DOMAIN results[c]
                        /\ "dateutil" \in DOMAIN results[c].packages)
                       <=> Rank(pc[c]) >= Rank("std_randint")
                  /\ ("tests" \in DOMAIN results[c]
                        /\ "stdlib" \in DOMAIN results[c].tests)
                       <=> Rank(pc[c]) >= Rank("summary")
             /\ "summary" \in DOMAIN results[c] <=> Returned(c))
    /\ [][\A c \in Callers :
             /\ pc'[c] # pc[c] => Rank(pc'[c]) > Rank(pc[c])
             /\ \A k \in DOMAIN results[c] :
                  /\ k \in DOMAIN results'[c]
                  /\ k \in {"packages", "tests"} =>
                       \A n \in DOMAIN results[c][k] :
                           /\ n \in DOMAIN results'[c][k]
                           /\ results'[c][k][n] = results[c][k][n]]_vars

\* C9 witness: an invocation returned after its network check had failed
\* and its date and stdlib checks had then run and succeeded.
C9_Witness ==
    \E c \in Callers :
        /\ Returned(c)
        /\ ~IsOk(NetEnd(c)) /\ IsOk(DateEnd(c)) /\ IsOk(StdEnd(c))
        /\ results[c].packages.dateutil.installed = Installed

\* a packages entry is a whole success record or a whole error record
WholePackage(rec, fields) ==
    \/ /\ DOMAIN rec = fields \cup {"installed"}
       /\ rec.installed = Installed
    \/ /\ DOMAIN rec = {"error", "installed"}
       /\ rec.installed = NotInstalled

\* C10: at every point of every invocation, each section record that exists
\* is either its complete success record without an error key or an error
\* record with none of the success fields; in the packages entries installed
\* is the check-mark exactly when there is no error key.
C10_NoPartialRecords ==
    \A c \in Callers :
        /\ \A k \in {"packages", "tests"} \cap DOMAIN results[c] :
               DOMAIN results[c][k] \subseteq
                   (IF k = "packages" THEN {"requests", "dateutil"} ELSE {"stdlib"})
        /\ ("packages" \in DOMAIN results[c] /\ "requests" \in DOMAIN results[c].packages) =>
               LET rec == results[c].packages.requests
               IN  /\ WholePackage(rec, {"version", "test", "repoData"})
                   /\ ~HasError(rec) =>
                        DOMAIN rec.repoData = {"name", "stars", "forks", "language"}
                   /\ rec.installed = Installed <=> ~HasError(rec)
        /\ ("packages" \in DOMAIN results[c] /\ "dateutil" \in DOMAIN results[c].packages) =>
               LET rec == results[c].packages.dateutil
               IN  /\ WholePackage(rec, {"test", "parsedDates", "calculations"})
                   /\ rec.installed = Installed <=> ~HasError(rec)
        /\ ("tests" \in DOMAIN results[c] /\ "stdlib" \in DOMAIN results[c].tests) =>
               LET rec == results[c].tests.stdlib
               IN  \/ DOMAIN rec = {"math", "random", "json", "datetime"}
                   \/ DOMAIN rec = {"error"}

\* C10 witness: the request was answered, a field of the body was missing
\* part-way through the dict display, and the invocation, not yet returned,
\* holds an error record for requests.
C10_Witness ==
    \E c \in Callers :
        /\ pc[c] = "date"
        /\ IsOk(inputs[c].get) /\ "json" \in DOMAIN inputs[c].get.ok.body
        /\ HasError(results[c].packages.requests)

====
